---------------------------- MODULE Spec2Model ----------------------------
(***************************************************************************)
(* A model of EVM_Balance_Parser: ErrorHandler (error_handling.py),        *)
(* BalanceReader (read_balances.py) and AsyncBalanceFetcher                *)
(* (fetch_balances.py).                                                    *)
(*                                                                         *)
(* Conventions.                                                            *)
(*  - A failure is an instance of Exception: a record [kind, msg], where   *)
(*    kind names its class and msg is str(error), a sequence of phrases    *)
(*    (<<>> is the empty string; "p in str(error)" is Contains(msg, p)).   *)
(*    BaseException-only signals (CancelledError, KeyboardInterrupt) are   *)
(*    not failures and are not modelled.                                   *)
(*  - None is the record None; a Python dict is a function; a dict with    *)
(*    optional keys is a record whose DOMAIN is its key set.               *)
(*  - A float is a decimal record [m, e] standing for m * 10^e, with m not *)
(*    divisible by 10 (float rounding is not modelled).                    *)
(*  - A coroutine runs atomically from one await to the next: asyncio is   *)
(*    single-threaded and cooperative.                                     *)
(***************************************************************************)
EXTENDS Integers, Sequences, FiniteSets, TLC

\* ------------------------------------------------------------------ bounds
\* Wallets in one call of fetch_all_balances.
MaxWallets == 2
\* Tokens in one call of fetch_all_balances with several wallets.
MaxBatchTokens == 1
\* Tokens in one call of fetch_balances_for_wallet looked at on its own.
MaxTokens == 2
\* Phrases in the text of a failure.
MaxMsgLen == 2

\* ------------------------------------------------------- ErrorHandler data
None == [none |-> TRUE]

\* The classes named by the rules of classify_error, in the order of their
\* first appearance in the rules.
RuleClasses ==
    {"ProviderConnectionError", "ClientConnectionError", "ClientResponseError",
     "ClientPayloadError", "ClientOSError", "InvalidURL",
     "requests.ConnectionError", "requests.Timeout",
     "InvalidAddress", "ValueError", "Web3ValidationError",
     "BadFunctionCallOutput", "InvalidEventABI", "ABIFunctionNotFound",
     "ABIEventFunctionNotFound", "MismatchedABI", "FallbackNotFound",
     "LogTopicError", "BlockNumberOutofRange", "BlockNotFound",
     "TransactionNotFound", "NameNotFound", "StaleBlockchain",
     "CannotHandleRequest", "TooManyRequests", "MultipleFailedRequests",
     "MethodUnavailable", "ContractLogicError", "TimeExhausted",
     "ExtraDataLengthError", "NoABIFunctionsFound", "NoABIFound",
     "NoABIEventsFound", "InsufficientData", "InvalidTransaction",
     "TransactionTypeMismatch", "BadResponseFormat", "UnicodeError"}

\* Exception classes no rule names.
OtherClasses ==
    {"Exception", "TypeError", "KeyError", "ZeroDivisionError", "TimeoutError",
     "ConnectionError", "UnicodeDecodeError"}

Kinds == RuleClasses \cup OtherClasses

\* The classes an instance of class k is an instance of (isinstance).
Mro(k) ==
    CASE k = "ClientOSError" -> {k, "ClientConnectionError"}
      [] k = "InvalidURL" -> {k, "ValueError"}
      [] k = "ABIFunctionNotFound" -> {k, "MismatchedABI"}
      [] k = "ABIEventFunctionNotFound" -> {k, "MismatchedABI"}
      [] k = "UnicodeError" -> {k, "ValueError"}
      [] k = "UnicodeDecodeError" -> {k, "UnicodeError", "ValueError"}
      [] OTHER -> {k}

\* type(error).__name__
TypeName(k) ==
    CASE k = "requests.ConnectionError" -> "ConnectionError"
      [] k = "requests.Timeout" -> "Timeout"
      [] OTHER -> k

HexStr == "when sending a str, it must be a hex string"
UnknownFormat == "Unknown format"
CouldNotFormat == "Could not format invalid value"
Phrases == {HexStr, UnknownFormat, CouldNotFormat, "timed out"}

SeqsUpTo(S, n) == UNION {[1..m -> S] : m \in 0..n}

Messages == SeqsUpTo(Phrases, MaxMsgLen)
Failures == [kind : Kinds, msg : Messages]

isinstance(error, classes) == Mro(error.kind) \cap classes # {}
Contains(msg, p) == \E i \in 1..Len(msg) : msg[i] = p

\* ------------------------------------------------- ErrorHandler operations
\* classify_error, its rules for blockchain data, request handling, contract
\* execution, data format, transactions, response format and Unicode errors,
\* and its final else.
classify_data_error(error) ==
    IF isinstance(error, {"BlockNumberOutofRange"}) THEN "block_number_out_of_range"
    ELSE IF isinstance(error, {"BlockNotFound"}) THEN "block_not_found"
    ELSE IF isinstance(error, {"TransactionNotFound"}) THEN "transaction_not_found"
    ELSE IF isinstance(error, {"NameNotFound"}) THEN "name_not_found"
    ELSE IF isinstance(error, {"StaleBlockchain"}) THEN "stale_blockchain"
    ELSE IF isinstance(error, {"CannotHandleRequest"}) THEN "cannot_handle_request"
    ELSE IF isinstance(error, {"TooManyRequests"}) THEN "too_many_requests"
    ELSE IF isinstance(error, {"MultipleFailedRequests"}) THEN "multiple_failed_requests"
    ELSE IF isinstance(error, {"MethodUnavailable"}) THEN "method_unavailable"
    ELSE IF isinstance(error, {"ContractLogicError"}) THEN "contract_logic_error"
    ELSE IF isinstance(error, {"TimeExhausted"}) THEN "time_exhausted"
    ELSE IF isinstance(error, {"ExtraDataLengthError"}) THEN "extra_data_length_error"
    ELSE IF isinstance(error, {"NoABIFunctionsFound"}) THEN "no_abi_functions_found"
    ELSE IF isinstance(error, {"NoABIFound"}) THEN "no_abi_found"
    ELSE IF isinstance(error, {"NoABIEventsFound"}) THEN "no_abi_events_found"
    ELSE IF isinstance(error, {"InsufficientData"}) THEN "insufficient_data"
    ELSE IF isinstance(error, {"InvalidTransaction"}) THEN "invalid_transaction"
    ELSE IF isinstance(error, {"TransactionTypeMismatch"}) THEN "transaction_type_mismatch"
    ELSE IF isinstance(error, {"BadResponseFormat"}) THEN "bad_response_format"
    ELSE IF isinstance(error, {"UnicodeError"}) THEN "connection_to_node"
    ELSE "unknown"

\* classify_error, its rules for validation and ABI errors, then the rest.
classify_abi_error(error) ==
    IF isinstance(error, {"Web3ValidationError"}) THEN "validation"
    ELSE IF isinstance(error, {"BadFunctionCallOutput"}) THEN "bad_function_call_output"
    ELSE IF isinstance(error, {"InvalidEventABI"}) THEN "invalid_event_abi"
    ELSE IF isinstance(error, {"ABIFunctionNotFound"}) THEN "abi_function_not_found"
    ELSE IF isinstance(error, {"ABIEventFunctionNotFound"})
    THEN "abi_event_function_not_found"
    ELSE IF isinstance(error, {"MismatchedABI"}) THEN "mismatched_abi"
    ELSE IF isinstance(error, {"ValueError"}) /\ Contains(error.msg, CouldNotFormat)
    THEN "abi_error"
    ELSE IF isinstance(error, {"FallbackNotFound"}) THEN "fallback_not_found"
    ELSE IF isinstance(error, {"LogTopicError"}) THEN "log_topic_error"
    ELSE classify_data_error(error)

NetworkClasses ==
    {"ProviderConnectionError", "ClientConnectionError", "ClientResponseError",
     "ClientPayloadError", "ClientOSError", "InvalidURL",
     "requests.ConnectionError", "requests.Timeout"}

\* A variant of classify_error that handles a ValueError in one branch and
\* returns nothing ("" here) for one whose text it does not know.
classify_error_nested(error) ==
    IF isinstance(error, NetworkClasses) THEN "connection_to_node"
    ELSE IF isinstance(error, {"InvalidAddress"}) THEN "invalid_address"
    ELSE IF isinstance(error, {"ValueError"})
    THEN IF Contains(error.msg, HexStr) \/ Contains(error.msg, UnknownFormat)
         THEN "invalid_address_format"
         ELSE IF Contains(error.msg, CouldNotFormat) THEN "abi_error"
         ELSE ""
    ELSE classify_abi_error(error)

\* A variant of classify_error that looks for the ABI text of a ValueError
\* before the two address texts.
classify_error_abi_first(error) ==
    IF isinstance(error, NetworkClasses) THEN "connection_to_node"
    ELSE IF isinstance(error, {"InvalidAddress"}) THEN "invalid_address"
    ELSE IF isinstance(error, {"ValueError"}) /\ Contains(error.msg, CouldNotFormat)
    THEN "abi_error"
    ELSE IF isinstance(error, {"ValueError"}) /\ Contains(error.msg, HexStr)
    THEN "invalid_address_format"
    ELSE IF isinstance(error, {"ValueError"}) /\ Contains(error.msg, UnknownFormat)
    THEN "invalid_address_format"
    ELSE classify_abi_error(error)

\* classify_error: its rules for network and address errors, then the rest.
classify_error(error) ==
    IF isinstance(error, NetworkClasses) THEN "connection_to_node"
    ELSE IF isinstance(error, {"InvalidAddress"}) THEN "invalid_address"
    ELSE IF isinstance(error, {"ValueError"}) /\ Contains(error.msg, HexStr)
    THEN "invalid_address_format"
    ELSE IF isinstance(error, {"ValueError"}) /\ Contains(error.msg, UnknownFormat)
    THEN "invalid_address_format"
    ELSE classify_abi_error(error)

NoDetail == "*no detailed info is provided*"

\* f"{type(error).__name__}: {error_message}" as the sequence of its parts.
get_error_message(error) ==
    LET error_message == IF error.msg # <<>> THEN error.msg ELSE <<NoDetail>>
    IN  <<TypeName(error.kind), ": ">> \o error_message


\* ------------------------------------------------------------ Python values
Ok(v) == [ok |-> TRUE, val |-> v]
Raise(e) == [ok |-> FALSE, exc |-> e]

Str(s) == [type |-> "str", val |-> s]
List(s) == [type |-> "list", val |-> s]
Hashable(v) == v.type = "str"

EmptyDict == [x \in {} |-> None]
DictSet(d, k, v) == [x \in DOMAIN d \cup {k} |-> IF x = k THEN v ELSE d[x]]

\* A decimal m * 10^e in normal form: no trailing zero in m, and zero is 0 * 10^0.
RECURSIVE Norm(_)
Norm(x) ==
    IF x.m = 0 THEN [m |-> 0, e |-> 0]
    ELSE IF x.m % 10 = 0 THEN Norm([m |-> x.m \div 10, e |-> x.e + 1])
    ELSE x

\* value / 10 ** digits
Div10(value, digits) == Norm([m |-> value.m, e |-> value.e - digits])

\* ------------------------------------------------- the node behind web3
\* Addresses given to the program, as written by the user.
WalletInputs == {"0xa", "0xB", "bad"}
TokenInputs == {"0xt1", "0xT2", "badt"}

\* Web3.to_checksum_address: the checksummed form, or a ValueError.
to_checksum_address(a) ==
    CASE a \in {"0xa", "0xA"} -> Ok("0xA")
      [] a \in {"0xb", "0xB"} -> Ok("0xB")
      [] a \in {"0xt1", "0xT1"} -> Ok("0xT1")
      [] a \in {"0xt2", "0xT2"} -> Ok("0xT2")
      [] OTHER -> Raise([kind |-> "ValueError", msg |-> <<UnknownFormat>>])

Accounts == {"0xA", "0xB"}
Contracts == {"0xT1", "0xT2"}

\* What the chain holds: balances in the smallest unit, decimals per contract.
NativeWei(w) == IF w = "0xA" THEN [m |-> 15, e |-> 17] ELSE [m |-> 0, e |-> 0]
BalanceOfRaw(t, w) ==
    CASE t = "0xT1" /\ w = "0xA" -> [m |-> 5, e |-> 5]
      [] t = "0xT1" /\ w = "0xB" -> [m |-> 0, e |-> 0]
      [] t = "0xT2" /\ w = "0xA" -> [m |-> 25, e |-> 17]
      [] OTHER -> [m |-> 7, e |-> 18]
DecimalsOf(t) == IF t = "0xT1" THEN 6 ELSE 18
SymbolValues == {Str("USDX"), Str("WETH"), List("USDX")}

\* The failures of a remote call seen by the fetcher's runs.
NativeCallFailures ==
    {[kind |-> "ClientConnectionError", msg |-> <<"timed out">>],
     [kind |-> "TooManyRequests", msg |-> <<>>]}
TokenCallFailures == {[kind |-> "BadFunctionCallOutput", msg |-> <<CouldNotFormat>>]}

GetBalanceCall(w) == <<"get_balance", w>>
BalanceOfCall(t, w) == <<"balanceOf", t, w>>
DecimalsCall(t) == <<"decimals", t>>
SymbolCall(t) == <<"symbol", t>>

AllCalls ==
    {GetBalanceCall(w) : w \in Accounts}
      \cup {BalanceOfCall(t, w) : t \in Contracts, w \in Accounts}
      \cup {DecimalsCall(t) : t \in Contracts}
      \cup {SymbolCall(t) : t \in Contracts}

\* The values a call can return when it does not fail.
Values(call) ==
    CASE call[1] = "get_balance" -> {NativeWei(call[2])}
      [] call[1] = "balanceOf" -> {BalanceOfRaw(call[2], call[3])}
      [] call[1] = "decimals" -> {DecimalsOf(call[2])}
      [] OTHER -> SymbolValues

\* Every outcome of a call whose failures are drawn from F.
Replies(call, F) == {Ok(v) : v \in Values(call)} \cup {Raise(f) : f \in F}

\* ------------------------------------------------------------ BalanceReader
\* A reader coroutine suspended on a remote call.
Frame(call, balance_of_token, token_decimals) ==
    [call |-> call, balance_of_token |-> balance_of_token,
     token_decimals |-> token_decimals]
NoFrame == Frame(<<"none">>, None, None)

\* How a step of a reader coroutine ends: suspended on a call, or ended with the
\* outcome ret. caught is the failure its except clause caught, None without one:
\* an observation for the properties, no value of the program.
Suspended(frame) == [susp |-> TRUE, frame |-> frame]
Returned(outcome) == [susp |-> FALSE, ret |-> outcome, caught |-> None]
Caught(e, outcome) == [susp |-> FALSE, ret |-> outcome, caught |-> e]

\* get_native_token_balance, its except clause.
NativeExcept(e) ==
    Caught(e, Ok(<<None, classify_error(e), get_error_message(e)>>))

\* get_native_token_balance up to its await.
NativeStart(wallet_address) ==
    LET checksum_wallet_address == to_checksum_address(wallet_address)
    IN  IF checksum_wallet_address.ok
        THEN Suspended(Frame(GetBalanceCall(checksum_wallet_address.val), None, None))
        ELSE NativeExcept(checksum_wallet_address.exc)

\* get_native_token_balance from its await on.
NativeResume(reply) ==
    IF reply.ok
    THEN Returned(Ok(<<Div10(reply.val, 18), None, None>>))
    ELSE NativeExcept(reply.exc)

\* get_custom_token_balance, its except clause.
TokenExcept(e) ==
    Caught(e, Ok(<<None, None, classify_error(e), get_error_message(e)>>))

\* get_custom_token_balance up to its first await.
TokenStart(token_address, wallet_address) ==
    LET checksum_wallet_address == to_checksum_address(wallet_address)
        checksum_token_address == to_checksum_address(token_address)
    IN  IF ~checksum_wallet_address.ok
        THEN TokenExcept(checksum_wallet_address.exc)
        ELSE IF ~checksum_token_address.ok
        THEN TokenExcept(checksum_token_address.exc)
        ELSE Suspended(Frame(BalanceOfCall(checksum_token_address.val,
                                           checksum_wallet_address.val),
                             None, None))

\* A variant of TokenResume whose symbol() call stands after the try block: its
\* failure leaves get_custom_token_balance as a raised exception.
TokenResumeSymbolUnguarded(frame, reply) ==
    LET token == frame.call[2]
    IN  IF ~reply.ok
        THEN IF frame.call[1] = "symbol" THEN Returned(Raise(reply.exc))
             ELSE TokenExcept(reply.exc)
        ELSE CASE frame.call[1] = "balanceOf" ->
                    Suspended(Frame(DecimalsCall(token), reply.val, None))
               [] frame.call[1] = "decimals" ->
                    Suspended(Frame(SymbolCall(token), frame.balance_of_token, reply.val))
               [] OTHER ->
                    Returned(Ok(<<Div10(frame.balance_of_token, frame.token_decimals),
                                  reply.val, None, None>>))

\* A variant of TokenResume that keeps the amount it has computed when symbol()
\* fails, and returns it beside the error.
TokenResumePartial(frame, reply) ==
    LET token == frame.call[2]
    IN  IF ~reply.ok
        THEN IF frame.call[1] = "symbol"
             THEN Caught(reply.exc,
                         Ok(<<Div10(frame.balance_of_token, frame.token_decimals), None,
                              classify_error(reply.exc), get_error_message(reply.exc)>>))
             ELSE TokenExcept(reply.exc)
        ELSE CASE frame.call[1] = "balanceOf" ->
                    Suspended(Frame(DecimalsCall(token), reply.val, None))
               [] frame.call[1] = "decimals" ->
                    Suspended(Frame(SymbolCall(token), frame.balance_of_token, reply.val))
               [] OTHER ->
                    Returned(Ok(<<Div10(frame.balance_of_token, frame.token_decimals),
                                  reply.val, None, None>>))

\* get_custom_token_balance from one await to the next, or to its return.
TokenResume(frame, reply) ==
    LET token == frame.call[2]
    IN  IF ~reply.ok THEN TokenExcept(reply.exc)
        ELSE CASE frame.call[1] = "balanceOf" ->
                    Suspended(Frame(DecimalsCall(token), reply.val, None))
               [] frame.call[1] = "decimals" ->
                    Suspended(Frame(SymbolCall(token), frame.balance_of_token, reply.val))
               [] OTHER ->
                    Returned(Ok(<<Div10(frame.balance_of_token, frame.token_decimals),
                                  reply.val, None, None>>))

\* ------------------------------------------------------------------- state
VARIABLES
    wallet_addresses,  \* fetch_all_balances: its first argument
    token_addresses,   \* fetch_all_balances: its second argument
    pc,                \* fetch_all_balances: where it stands
    idx,               \* fetch_all_balances: iterations of the launch loop completed
    tasks,             \* fetch_all_balances: the list tasks, one coroutine per entry
    final_results,     \* fetch_all_balances: the returned list
    mock,              \* TRUE when the node is a mock answering a call always alike
    answers,           \* what the mock answered, per call
    reader,            \* one BalanceReader operation called on its own
    error,             \* ErrorHandler: the failure handed to it
    classified,        \* ErrorHandler: <<classify_error(error)>> once computed
    described          \* ErrorHandler: <<get_error_message(error)>> once computed

vars ==
    <<wallet_addresses, token_addresses, pc, idx, tasks, final_results, mock,
      answers, reader, error, classified, described>>

fetcherVars == <<wallet_addresses, token_addresses, pc, idx, tasks, final_results,
                 mock, answers>>
handlerVars == <<error, classified, described>>

\* ------------------------------------------------------ AsyncBalanceFetcher
\* The coroutine object of fetch_balances_for_wallet(wallet_address, ...):
\* created, not yet running. k is the position of token_address in the list.
\* seen holds observations for the properties, no values of the program: the
\* number of get_balance and of balanceOf calls issued so far, the failure of
\* the native lookup (None without one), the positions of the tokens whose
\* lookup failed and of those read, the remote calls issued so far in their
\* order (kept while the run is in progress), the symbol each token read
\* reported, the failure caught by the except clause of
\* fetch_balances_for_wallet (None without one), and the wallet arguments of
\* the lookups whose replies the coroutine was resumed with.
Coroutine(wallet_address) ==
    [pc |-> "created", wallet_address |-> wallet_address, k |-> 0,
     native_balance |-> None, token_balances |-> EmptyDict, errors |-> EmptyDict,
     frame |-> NoFrame, outcome |-> None,
     seen |-> [get_balance |-> 0, balanceOf |-> 0, native_failure |-> None,
               failed |-> {}, read |-> {}, issued |-> <<>>, symbols |-> EmptyDict,
               escaped |-> None, answered |-> {}]]

\* {'type': error_type, 'message': error_message} of a caught failure.
ErrorDict(e) == [type |-> classify_error(e), message |-> get_error_message(e)]

\* The coroutine ends with `outcome`; its locals go with it, and so does the
\* list of the calls it issued: the counts of them stay.
FetchEnd(t, outcome) ==
    [Coroutine(t.wallet_address) EXCEPT
        !.pc = "done", !.outcome = outcome,
        !.seen = [t.seen EXCEPT !.issued = <<>>]]

\* A variant of FetchExcept that reports the native balance read so far beside
\* the error.
FetchExceptKeepsBalance(t, e) ==
    FetchEnd([t EXCEPT !.seen.escaped = e],
             Ok([wallet_address |-> t.wallet_address,
                 native_balance |-> t.native_balance,
                 error |-> ErrorDict(e)]))

\* A variant of FetchExcept that lets the failure go: the coroutine ends by
\* raising it.
FetchExceptReraises(t, e) ==
    FetchEnd([t EXCEPT !.seen.escaped = e], Raise(e))

\* fetch_balances_for_wallet, its except clause.
FetchExcept(t, e) ==
    FetchEnd([t EXCEPT !.seen.escaped = e],
             Ok([wallet_address |-> t.wallet_address, error |-> ErrorDict(e)]))

\* A variant of FetchReturn that always reports errors, empty or not.
FetchReturnAlwaysErrors(t) ==
    FetchEnd(t, Ok([wallet_address |-> t.wallet_address,
                    native_balance |-> t.native_balance,
                    token_balances |-> t.token_balances,
                    errors |-> t.errors]))

\* fetch_balances_for_wallet, its return after the token loop.
FetchReturn(t) ==
    IF DOMAIN t.errors # {}
    THEN FetchEnd(t, Ok([wallet_address |-> t.wallet_address,
                         native_balance |-> t.native_balance,
                         token_balances |-> t.token_balances,
                         errors |-> t.errors]))
    ELSE FetchEnd(t, Ok([wallet_address |-> t.wallet_address,
                         native_balance |-> t.native_balance,
                         token_balances |-> t.token_balances]))

\* token_balances[symbol] = balance: a key that is not hashable is a TypeError.
RecordBalance(t, symbol, balance) ==
    IF Hashable(symbol)
    THEN Ok([t EXCEPT !.token_balances = DictSet(@, symbol.val, balance)])
    ELSE Raise([kind |-> "TypeError", msg |-> <<"unhashable type: 'list'">>])

\* errors[token_address] = {"error_type": ..., "message": ...}
RecordError(t, token_address, error_type, message) ==
    [t EXCEPT !.errors =
        DictSet(@, token_address, [error_type |-> error_type, message |-> message])]

RECURSIVE TokenLoop(_, _)
RECURSIVE AfterToken(_, _, _)

\* The for loop of fetch_balances_for_wallet from its k-th token on, up to the
\* next await or to the return. (The loop takes the state t0 it starts from as
\* a value, the one element of {t0}, so that it is computed once.)
TokenLoop(t0, tokens) ==
    LET Iteration(t) ==
            IF t.k > Len(tokens) THEN FetchReturn(t)
            ELSE LET s == TokenStart(tokens[t.k], t.wallet_address)
                 IN  IF s.susp
                     THEN [t EXCEPT !.pc = "awaiting", !.frame = s.frame,
                                    !.seen.balanceOf = @ + 1,
                                    !.seen.issued = Append(@, s.frame.call)]
                     ELSE AfterToken(t, tokens, s)
    IN  CHOOSE after \in {Iteration(t) : t \in {t0}} : TRUE

\* A variant of AfterToken that tests the balance and the symbol for truth, not
\* for None: a balance of zero goes to errors.
AfterTokenTruthy(t0, tokens, s) ==
    LET r == s.ret
        t == IF s.caught # None
             THEN [t0 EXCEPT !.seen.failed = @ \cup {t0.k}]
             ELSE [t0 EXCEPT !.seen.read = @ \cup {t0.k},
                             !.seen.symbols =
                                 IF s.ret.ok THEN DictSet(@, t0.k, s.ret.val[2])
                                 ELSE @]
    IN
    IF ~r.ok THEN FetchExcept(t, r.exc)
    ELSE LET balance_result == r.val
             balance == balance_result[1]
             symbol == balance_result[2]
             next == [t EXCEPT !.k = @ + 1, !.frame = NoFrame]
         IN  IF balance # None /\ balance # [m |-> 0, e |-> 0] /\ symbol # None
             THEN LET rec == RecordBalance(next, symbol, balance)
                  IN  IF rec.ok THEN TokenLoop(rec.val, tokens)
                      ELSE FetchExcept(t, rec.exc)
             ELSE TokenLoop(RecordError(next, tokens[t.k], balance_result[3],
                                        balance_result[4]), tokens)

\* The body of the for loop once get_custom_token_balance has ended as s.
AfterToken(t0, tokens, s) ==
    LET r == s.ret
        t == IF s.caught # None
             THEN [t0 EXCEPT !.seen.failed = @ \cup {t0.k}]
             ELSE [t0 EXCEPT !.seen.read = @ \cup {t0.k},
                             !.seen.symbols =
                                 IF s.ret.ok THEN DictSet(@, t0.k, s.ret.val[2])
                                 ELSE @]
    IN
    IF ~r.ok THEN FetchExcept(t, r.exc)
    ELSE LET balance_result == r.val
             balance == balance_result[1]
             symbol == balance_result[2]
             next == [t EXCEPT !.k = @ + 1, !.frame = NoFrame]
         IN  IF Len(balance_result) = 4
             THEN IF balance # None /\ symbol # None
                  THEN LET rec == RecordBalance(next, symbol, balance)
                       IN  IF rec.ok THEN TokenLoop(rec.val, tokens)
                           ELSE FetchExcept(t, rec.exc)
                  ELSE TokenLoop(RecordError(next, tokens[t.k], balance_result[3],
                                             balance_result[4]), tokens)
             ELSE LET rec == RecordBalance(next, symbol, balance)
                  IN  IF rec.ok THEN TokenLoop(rec.val, tokens)
                      ELSE FetchExcept(t, rec.exc)

\* A variant of AfterNative without the test of native_balance: the token loop
\* runs whether or not the native lookup failed.
AfterNativeNoShortCircuit(t0, tokens, s) ==
    LET r == s.ret
        t == [t0 EXCEPT !.seen.native_failure = s.caught]
    IN
    IF ~r.ok THEN FetchExcept(t, r.exc)
    ELSE TokenLoop([t EXCEPT !.native_balance = r.val[1],
                             !.token_balances = EmptyDict,
                             !.errors = EmptyDict,
                             !.k = 1, !.frame = NoFrame], tokens)

\* A variant of AfterNative whose token list is an iterator shared by the runs:
\* once a run has ended, the iterator is used up and a later loop finds no token.
AfterNativeSharedIterator(t0, tokens, s) ==
    LET r == s.ret
        t == [t0 EXCEPT !.seen.native_failure = s.caught]
        used_up == \E j \in 1..Len(tasks) : tasks[j].pc = "done"
    IN
    IF ~r.ok THEN FetchExcept(t, r.exc)
    ELSE IF r.val[1] # None
         THEN TokenLoop([t EXCEPT !.native_balance = r.val[1],
                                  !.token_balances = EmptyDict,
                                  !.errors = EmptyDict,
                                  !.k = IF used_up THEN Len(tokens) + 1 ELSE 1,
                                  !.frame = NoFrame], tokens)
         ELSE FetchEnd(t, Ok([wallet_address |-> t.wallet_address,
                              error |-> [type |-> r.val[2], message |-> r.val[3]]]))

\* fetch_balances_for_wallet once get_native_token_balance has ended as s.
AfterNative(t0, tokens, s) ==
    LET r == s.ret
        t == [t0 EXCEPT !.seen.native_failure = s.caught]
    IN
    IF ~r.ok THEN FetchExcept(t, r.exc)
    ELSE LET native_balance == r.val[1]
             native_error_type == r.val[2]
             native_error_message == r.val[3]
         IN  IF native_balance # None
             THEN TokenLoop([t EXCEPT !.native_balance = native_balance,
                                      !.token_balances = EmptyDict,
                                      !.errors = EmptyDict,
                                      !.k = 1, !.frame = NoFrame], tokens)
             ELSE FetchEnd(t, Ok([wallet_address |-> t.wallet_address,
                                  error |-> [type |-> native_error_type,
                                             message |-> native_error_message]]))

\* A variant of FetchStart that issues the native call and goes on to the token
\* loop without waiting for its reply.
FetchStartWithoutWaiting(t, tokens) ==
    LET s == NativeStart(t.wallet_address)
    IN  IF s.susp
        THEN TokenLoop([t EXCEPT !.seen.get_balance = @ + 1,
                                 !.seen.issued = Append(@, s.frame.call),
                                 !.k = 1], tokens)
        ELSE AfterNative(t, tokens, s)

\* fetch_balances_for_wallet from its first line to its first await.
FetchStart(t, tokens) ==
    LET s == NativeStart(t.wallet_address)
    IN  IF s.susp
        THEN [t EXCEPT !.pc = "awaiting", !.frame = s.frame,
                       !.seen.get_balance = @ + 1,
                       !.seen.issued = Append(@, s.frame.call)]
        ELSE AfterNative(t, tokens, s)

\* A variant of FetchResume whose loop does not wait for the end of a lookup: on
\* the reply to balanceOf it leaves the lookup unfinished and starts the next one.
FetchResumeMovesOn(t, tokens, reply) ==
    IF t.frame.call[1] = "get_balance"
    THEN AfterNative(t, tokens, NativeResume(reply))
    ELSE IF t.frame.call[1] = "balanceOf"
    THEN TokenLoop([t EXCEPT !.k = @ + 1, !.frame = NoFrame], tokens)
    ELSE LET s == TokenResume(t.frame, reply)
         IN  IF s.susp
             THEN [t EXCEPT !.frame = s.frame,
                            !.seen.issued = Append(@, s.frame.call)]
             ELSE AfterToken(t, tokens, s)

\* A variant of FetchResume that issues a failed call a second time before it
\* gives up.
FetchResumeRetries(t, tokens, reply) ==
    IF ~reply.ok /\ Cardinality({n \in 1..Len(t.seen.issued) :
                                    t.seen.issued[n] = t.frame.call}) < 2
    THEN [t EXCEPT !.seen.issued = Append(@, t.frame.call)]
    ELSE IF t.frame.call[1] = "get_balance"
    THEN AfterNative(t, tokens, NativeResume(reply))
    ELSE LET s == TokenResume(t.frame, reply)
         IN  IF s.susp
             THEN [t EXCEPT !.frame = s.frame,
                            !.seen.issued = Append(@, s.frame.call)]
             ELSE AfterToken(t, tokens, s)

\* fetch_balances_for_wallet resumed by the reply to its pending call.
FetchResume(t, tokens, reply) ==
    IF t.frame.call[1] = "get_balance"
    THEN AfterNative(t, tokens, NativeResume(reply))
    ELSE LET s == TokenResume(t.frame, reply)
         IN  IF s.susp
             THEN [t EXCEPT !.frame = s.frame,
                            !.seen.issued = Append(@, s.frame.call)]
             ELSE AfterToken(t, tokens, s)

\* One entry of final_results from one entry of the gathered results.
FinalEntry(result) ==
    IF ~result.ok
    THEN [error |-> ErrorDict(result.exc)]
    ELSE result.val

\* ------------------------------------------------------------ the node
Unset == [unset |-> TRUE]

CallFailures(call) ==
    IF call[1] = "get_balance" THEN NativeCallFailures ELSE TokenCallFailures

\* The replies the node can give to a call of a fetcher run.
NodeReplies(call) ==
    IF mock /\ answers[call] # Unset
    THEN {answers[call]}
    ELSE Replies(call, CallFailures(call))

Remember(call, reply) ==
    IF mock THEN [answers EXCEPT ![call] = reply] ELSE answers

\* ------------------------------------------------ fetch_all_balances steps
\* The coroutine t about to be resumed with the reply to the pending call of the
\* coroutine `caller`: the wallet argument of the lookup that made the call is
\* noted in seen.
Answered(t, caller) ==
    [t EXCEPT !.seen.answered = @ \cup {caller.wallet_address}]

Suspended_main == pc \in {"sleep", "gather"}

\* tasks.append(self.fetch_balances_for_wallet(...)); await asyncio.sleep: begins
AppendTask ==
    /\ pc = "loop"
    /\ idx < Len(wallet_addresses)
    /\ tasks' = Append(tasks, Coroutine(wallet_addresses[idx + 1]))
    /\ pc' = "sleep"
    /\ UNCHANGED <<wallet_addresses, token_addresses, idx, final_results, mock,
                   answers, reader, handlerVars>>

\* await asyncio.sleep(self.delay): ends; print(...)
SleepReturns ==
    /\ pc = "sleep"
    /\ idx' = idx + 1
    /\ pc' = "loop"
    /\ UNCHANGED <<wallet_addresses, token_addresses, tasks, final_results, mock,
                   answers, reader, handlerVars>>

\* A variant of Gather that waits for the coroutines without making tasks of
\* them: none is ever run.
GatherWithoutScheduling ==
    /\ pc = "loop"
    /\ idx = Len(wallet_addresses)
    /\ pc' = "gather"
    /\ UNCHANGED <<wallet_addresses, token_addresses, idx, tasks, final_results,
                   mock, answers, reader, handlerVars>>

\* asyncio.gather(*tasks, return_exceptions=True): every coroutine becomes a
\* scheduled task, and fetch_all_balances waits for all of them.
Gather ==
    /\ pc = "loop"
    /\ idx = Len(wallet_addresses)
    /\ tasks' = [i \in 1..Len(tasks) |-> [tasks[i] EXCEPT !.pc = "scheduled"]]
    /\ pc' = "gather"
    /\ UNCHANGED <<wallet_addresses, token_addresses, idx, final_results, mock,
                   answers, reader, handlerVars>>

\* The event loop runs a scheduled task for the first time.
TaskStarts(i) ==
    /\ Suspended_main
    /\ tasks[i].pc = "scheduled"
    /\ tasks' = [tasks EXCEPT ![i] = FetchStart(@, token_addresses)]
    /\ UNCHANGED <<wallet_addresses, token_addresses, pc, idx, final_results, mock,
                   answers, reader, handlerVars>>

\* A variant of CallReturns in which a failed reply also ends every other task
\* that is waiting for a reply, the way a task group cancels on a first failure.
CallReturnsAbortsSiblings(i, method) ==
    /\ Suspended_main
    /\ tasks[i].pc = "awaiting"
    /\ tasks[i].frame.call[1] = method
    /\ \E reply \in NodeReplies(tasks[i].frame.call) :
          /\ tasks' = [j \in 1..Len(tasks) |->
                         IF j = i
                         THEN FetchResume(Answered(tasks[i], tasks[i]),
                                          token_addresses, reply)
                         ELSE IF ~reply.ok /\ tasks[j].pc = "awaiting"
                         THEN FetchExcept(tasks[j], reply.exc)
                         ELSE tasks[j]]
          /\ answers' = Remember(tasks[i].frame.call, reply)
    /\ UNCHANGED <<wallet_addresses, token_addresses, pc, idx, final_results, mock,
                   reader, handlerVars>>

\* A variant of CallReturns in which the reader keeps the call it waits for in
\* one place shared by all tasks: a task waiting for `method` is resumed with
\* the reply to the call of any task that waits for `method`.
CallReturnsSharedPending(i, method) ==
    /\ Suspended_main
    /\ tasks[i].pc = "awaiting"
    /\ tasks[i].frame.call[1] = method
    /\ \E j \in 1..Len(tasks) :
          /\ tasks[j].pc = "awaiting"
          /\ tasks[j].frame.call[1] = method
          /\ \E reply \in NodeReplies(tasks[j].frame.call) :
                /\ tasks' = [tasks EXCEPT ![i] =
                                FetchResume(Answered(@, tasks[j]), token_addresses,
                                            reply)]
                /\ answers' = Remember(tasks[j].frame.call, reply)
    /\ UNCHANGED <<wallet_addresses, token_addresses, pc, idx, final_results, mock,
                   reader, handlerVars>>

\* The reply to the pending call `method` of task i arrives and the task runs on:
\* an await hands the reply to a call to the coroutine that made the call.
CallReturns(i, method) ==
    /\ Suspended_main
    /\ tasks[i].pc = "awaiting"
    /\ tasks[i].frame.call[1] = method
    /\ \E reply \in NodeReplies(tasks[i].frame.call) :
          /\ tasks' = [tasks EXCEPT ![i] =
                          FetchResume(Answered(@, tasks[i]), token_addresses, reply)]
          /\ answers' = Remember(tasks[i].frame.call, reply)
    /\ UNCHANGED <<wallet_addresses, token_addresses, pc, idx, final_results, mock,
                   reader, handlerVars>>

GetBalanceReturns(i) == CallReturns(i, "get_balance")
BalanceOfReturns(i) == CallReturns(i, "balanceOf")
DecimalsReturns(i) == CallReturns(i, "decimals")
SymbolReturns(i) == CallReturns(i, "symbol")

\* A variant of CallHangs in which the call that never returns is a blocking
\* one: the event loop stands still, and with it every task not yet ended.
CallHangsBlocksLoop(i) ==
    /\ Suspended_main
    /\ tasks[i].pc = "awaiting"
    /\ tasks' = [j \in 1..Len(tasks) |->
                   IF tasks[j].pc # "done" THEN [tasks[j] EXCEPT !.pc = "hung"]
                   ELSE tasks[j]]
    /\ UNCHANGED <<wallet_addresses, token_addresses, pc, idx, final_results, mock,
                   answers, reader, handlerVars>>

\* The pending call of task i is one that never returns: no call has a timeout,
\* so the task stays suspended on its await for good.
CallHangs(i) ==
    /\ Suspended_main
    /\ tasks[i].pc = "awaiting"
    /\ tasks' = [tasks EXCEPT ![i].pc = "hung"]
    /\ UNCHANGED <<wallet_addresses, token_addresses, pc, idx, final_results, mock,
                   answers, reader, handlerVars>>

\* A variant of GatherReturns that collects the results last task first.
GatherReturnsReversed ==
    /\ pc = "gather"
    /\ \A i \in 1..Len(tasks) : tasks[i].pc = "done"
    /\ final_results' = [i \in 1..Len(tasks) |->
                            FinalEntry(tasks[Len(tasks) + 1 - i].outcome)]
    /\ pc' = "done"
    /\ UNCHANGED <<wallet_addresses, token_addresses, idx, tasks, mock, answers,
                   reader, handlerVars>>

\* gather is done when every task is; then the loop over results and the return.
GatherReturns ==
    /\ pc = "gather"
    /\ \A i \in 1..Len(tasks) : tasks[i].pc = "done"
    /\ final_results' = [i \in 1..Len(tasks) |-> FinalEntry(tasks[i].outcome)]
    /\ pc' = "done"
    /\ UNCHANGED <<wallet_addresses, token_addresses, idx, tasks, mock, answers,
                   reader, handlerVars>>

\* ------------------------------------- a BalanceReader operation on its own
\* The operation `op` called with these arguments. Observations for the
\* properties: issued lists its remote calls, caught is the failure its except
\* clause caught (None without one), failed_at the step that raised it.
ReaderOp(op, wallet_address, token_address) ==
    [pc |-> "called", op |-> op, wallet_address |-> wallet_address,
     token_address |-> token_address, frame |-> NoFrame, outcome |-> None,
     issued |-> <<>>, caught |-> None, failed_at |-> ""]

\* The reader's coroutine after a step that ended in s.
ReaderAfter(r, s) ==
    IF s.susp
    THEN [r EXCEPT !.pc = "awaiting", !.frame = s.frame,
                   !.issued = Append(@, s.frame.call[1])]
    ELSE [r EXCEPT !.pc = "ended", !.frame = NoFrame, !.outcome = s.ret,
                   !.caught = s.caught,
                   !.failed_at = IF s.caught = None THEN ""
                                 ELSE IF r.pc = "called" THEN "to_checksum_address"
                                 ELSE r.frame.call[1]]

\* The operation runs from its first line to its first await, or to its end.
ReaderStarts ==
    /\ reader.pc = "called"
    /\ reader' = ReaderAfter(reader,
                    IF reader.op = "get_native_token_balance"
                    THEN NativeStart(reader.wallet_address)
                    ELSE TokenStart(reader.token_address, reader.wallet_address))
    /\ UNCHANGED <<fetcherVars, handlerVars>>

\* The reply to the pending call `method` arrives: any value, any failure.
ReaderCallReturns(method) ==
    /\ reader.pc = "awaiting"
    /\ reader.frame.call[1] = method
    /\ \E reply \in Replies(reader.frame.call, Failures) :
          reader' = ReaderAfter(reader,
                       IF method = "get_balance" THEN NativeResume(reply)
                       ELSE TokenResume(reader.frame, reply))
    /\ UNCHANGED <<fetcherVars, handlerVars>>

ReaderGetBalanceReturns == ReaderCallReturns("get_balance")
ReaderBalanceOfReturns == ReaderCallReturns("balanceOf")
ReaderDecimalsReturns == ReaderCallReturns("decimals")
ReaderSymbolReturns == ReaderCallReturns("symbol")

\* ---------------------------------------------------- ErrorHandler on its own
ClassifyError ==
    /\ classified = <<>>
    /\ classified' = <<classify_error(error)>>
    /\ UNCHANGED <<fetcherVars, reader, error, described>>

GetErrorMessage ==
    /\ described = <<>>
    /\ described' = <<get_error_message(error)>>
    /\ UNCHANGED <<fetcherVars, reader, error, classified>>

\* ------------------------------------------------------------ specifications
NoReader == [ReaderOp("none", "", "") EXCEPT !.pc = "unused"]
NoError == [kind |-> "Exception", msg |-> <<>>]

InitFetcher(W, T, m) ==
    /\ wallet_addresses \in W
    /\ token_addresses \in T
    /\ pc = "loop"
    /\ idx = 0
    /\ tasks = <<>>
    /\ final_results = <<>>
    /\ mock = m
    /\ answers = [c \in AllCalls |-> Unset]
    /\ reader = NoReader
    /\ error = NoError
    /\ classified = <<>>
    /\ described = <<>>

NextFetcher ==
    \/ AppendTask
    \/ SleepReturns
    \/ Gather
    \/ \E i \in 1..Len(tasks) : TaskStarts(i)
    \/ \E i \in 1..Len(tasks) : GetBalanceReturns(i)
    \/ \E i \in 1..Len(tasks) : BalanceOfReturns(i)
    \/ \E i \in 1..Len(tasks) : DecimalsReturns(i)
    \/ \E i \in 1..Len(tasks) : SymbolReturns(i)
    \/ GatherReturns

\* One call of fetch_all_balances on up to MaxWallets wallets, against a live node.
Init ==
    InitFetcher(SeqsUpTo(WalletInputs, MaxWallets),
                SeqsUpTo(TokenInputs, MaxBatchTokens), FALSE)
Next == NextFetcher
Spec == Init /\ [][Next]_vars

\* The event loop runs whatever is ready: fetch_all_balances when it is not
\* suspended or its sleep or gather is over, a task once it is scheduled, and a
\* task whose pending call has been answered.
MainStep == AppendTask \/ SleepReturns \/ Gather \/ GatherReturns
TaskStep(i) ==
    /\ i \in 1..Len(tasks)
    /\ \/ TaskStarts(i)
       \/ GetBalanceReturns(i)
       \/ BalanceOfReturns(i)
       \/ DecimalsReturns(i)
       \/ SymbolReturns(i)
Fairness == WF_vars(MainStep) /\ \A i \in 1..MaxWallets : WF_vars(TaskStep(i))

\* One call of fetch_all_balances on two wallets against a live node every call
\* of which returns, with a value or a failure, under a fair event loop.
InitFair ==
    InitFetcher({<<v, w>> : v \in WalletInputs, w \in WalletInputs},
                SeqsUpTo(TokenInputs, MaxBatchTokens), FALSE)
NextFair == NextFetcher
SpecFair == InitFair /\ [][NextFair]_vars /\ Fairness

\* One call of fetch_all_balances on two wallets against a live node some calls
\* of which never return, under a fair event loop: a pending call is answered
\* or is one that never returns.
InitHang ==
    InitFetcher({<<v, w>> : v \in WalletInputs, w \in WalletInputs},
                SeqsUpTo(TokenInputs, MaxBatchTokens), FALSE)
NextHang ==
    \/ NextFetcher
    \/ \E i \in 1..Len(tasks) : CallHangs(i)
FairnessHang ==
    /\ WF_vars(MainStep)
    /\ \A i \in 1..MaxWallets :
          WF_vars(TaskStep(i) \/ (i \in 1..Len(tasks) /\ CallHangs(i)))
SpecHang == InitHang /\ [][NextHang]_vars /\ FairnessHang

\* One call of fetch_all_balances on one wallet, that is one run of
\* fetch_balances_for_wallet, on up to MaxTokens tokens, against a live node.
InitWallet ==
    InitFetcher({<<w>> : w \in WalletInputs}, SeqsUpTo(TokenInputs, MaxTokens), FALSE)
NextWallet == NextFetcher
SpecWallet == InitWallet /\ [][NextWallet]_vars

\* One call of fetch_all_balances on two wallets, that is two runs of
\* fetch_balances_for_wallet, against a mock node, which answers a call the way
\* it answered it before.
InitMock ==
    InitFetcher({<<v, w>> : v \in WalletInputs, w \in WalletInputs},
                SeqsUpTo(TokenInputs, MaxTokens), TRUE)
NextMock == NextFetcher
SpecMock == InitMock /\ [][NextMock]_vars

\* One call of fetch_all_balances on two wallets and up to MaxTokens tokens,
\* against a live node.
InitPair ==
    InitFetcher({<<v, w>> : v \in WalletInputs, w \in WalletInputs},
                SeqsUpTo(TokenInputs, MaxTokens), FALSE)
NextPair == NextFetcher
SpecPair == InitPair /\ [][NextPair]_vars

\* One BalanceReader operation, any arguments, any replies.
InitReader ==
    /\ wallet_addresses = <<>>
    /\ token_addresses = <<>>
    /\ pc = "idle"
    /\ idx = 0
    /\ tasks = <<>>
    /\ final_results = <<>>
    /\ mock = FALSE
    /\ answers = [c \in AllCalls |-> Unset]
    /\ reader \in {ReaderOp("get_native_token_balance", w, "") : w \in WalletInputs}
                    \cup {ReaderOp("get_custom_token_balance", w, t) :
                            w \in WalletInputs, t \in TokenInputs}
    /\ error = NoError
    /\ classified = <<>>
    /\ described = <<>>
NextReader ==
    \/ ReaderStarts
    \/ ReaderGetBalanceReturns
    \/ ReaderBalanceOfReturns
    \/ ReaderDecimalsReturns
    \/ ReaderSymbolReturns
SpecReader == InitReader /\ [][NextReader]_vars

\* ErrorHandler applied to any failure.
InitHandler ==
    /\ wallet_addresses = <<>>
    /\ token_addresses = <<>>
    /\ pc = "idle"
    /\ idx = 0
    /\ tasks = <<>>
    /\ final_results = <<>>
    /\ mock = FALSE
    /\ answers = [c \in AllCalls |-> Unset]
    /\ reader = NoReader
    /\ error \in Failures
    /\ classified = <<>>
    /\ described = <<>>
NextHandler ==
    \/ ClassifyError
    \/ GetErrorMessage
SpecHandler == InitHandler /\ [][NextHandler]_vars

\* ------------------------------------------------------------------ claims
Returned_all == pc = "done"
HasField(d, f) == f \in DOMAIN d

\* C1: the list returned by fetch_all_balances has as many entries as the wallet
\* list, and an entry that carries a wallet_address carries the wallet at its own
\* position, whatever the replies and the order in which the tasks end.
C1_LengthAndOrder ==
    Returned_all =>
        /\ Len(final_results) = Len(wallet_addresses)
        /\ \A i \in 1..Len(final_results) :
              HasField(final_results[i], "wallet_address") =>
                  final_results[i].wallet_address = wallet_addresses[i]

\* C1 witness: a returned list for two different wallets, the first of which
\* failed and the second of which was read.
C1_Witness ==
    /\ Returned_all
    /\ Len(wallet_addresses) = 2
    /\ wallet_addresses[1] # wallet_addresses[2]
    /\ HasField(final_results[1], "error")
    /\ HasField(final_results[2], "native_balance")
    /\ final_results[2].wallet_address = wallet_addresses[2]

\* The outcome of fetch_balances_for_wallet run on its own from the point t,
\* against the answers the mock has given (None where it gave none).
RECURSIVE RunAlone(_, _)
RunAlone(t, tokens) ==
    IF t.pc = "done" THEN t.outcome
    ELSE IF t.pc \in {"created", "scheduled"}
    THEN RunAlone(FetchStart(t, tokens), tokens)
    ELSE IF answers[t.frame.call] = Unset THEN Ok(None)
    ELSE RunAlone(FetchResume(t, tokens, answers[t.frame.call]), tokens)

\* C2: fetch_all_balances returns, every task ends by returning, no wallet is
\* dropped, and the entry of each wallet is the result its own run gives on the
\* node's answers to its own calls, whatever failed for the other wallets.
C2_FailuresIsolated ==
    /\ \A i \in 1..Len(tasks) : tasks[i].pc = "done" => tasks[i].outcome.ok
    /\ Returned_all =>
          /\ Len(final_results) = Len(wallet_addresses)
          /\ \A i \in 1..Len(final_results) :
                final_results[i] =
                    RunAlone(Coroutine(wallet_addresses[i]), token_addresses).val

\* C2 witness: the native lookup of the first wallet failed at the node, and the
\* second wallet, a different one, has its balance and a token read.
C2_Witness ==
    /\ Returned_all
    /\ wallet_addresses[1] # wallet_addresses[2]
    /\ tasks[1].seen.native_failure \in NativeCallFailures
    /\ HasField(final_results[1], "error")
    /\ HasField(final_results[2], "native_balance")
    /\ DOMAIN final_results[2].token_balances # {}

Ended(i) == tasks[i].pc = "done"
Result(i) == tasks[i].outcome.val
NoDuplicates(seq) == \A a, b \in 1..Len(seq) : seq[a] = seq[b] => a = b
ErrorKeys(result) == IF HasField(result, "errors") THEN DOMAIN result.errors ELSE {}

\* C3: for a wallet whose native lookup succeeds and a list of N distinct token
\* addresses of which k lookups fail, a result that reports token_balances has
\* N - k entries in it, and k entries in errors, keyed by the failing addresses.
C3_OneEntryPerTokenRead ==
    \A i \in 1..Len(tasks) :
        (/\ Ended(i)
         /\ tasks[i].seen.native_failure = None
         /\ NoDuplicates(token_addresses)
         /\ HasField(Result(i), "token_balances"))
        => /\ Cardinality(DOMAIN Result(i).token_balances)
                = Len(token_addresses) - Cardinality(tasks[i].seen.failed)
           /\ ErrorKeys(Result(i))
                = {token_addresses[j] : j \in tasks[i].seen.failed}

\* C4: when the native lookup of a wallet fails, no token-balance call is made
\* for it, and the result is {wallet_address, error} with the category and the
\* message of that failure.
C4_NativeFailureShortCircuits ==
    \A i \in 1..Len(tasks) :
        LET f == tasks[i].seen.native_failure
        IN  f # None =>
              /\ tasks[i].seen.balanceOf = 0
              /\ Ended(i)
              /\ tasks[i].outcome =
                   Ok([wallet_address |-> tasks[i].wallet_address,
                       error |-> [type |-> classify_error(f),
                                  message |-> get_error_message(f)]])

\* C4 witness: the native call of a wallet failed at the node, with two tokens
\* of valid address waiting to be looked up.
C4_Witness ==
    /\ Len(tasks) = 1
    /\ Ended(1)
    /\ tasks[1].seen.native_failure \in NativeCallFailures
    /\ token_addresses = <<"0xt1", "0xT2">>

\* C5 as claimed: the result has an errors field exactly when a token lookup of
\* the wallet failed.
C5_ErrorsIffTokenFailed ==
    \A i \in 1..Len(tasks) :
        Ended(i) => (HasField(Result(i), "errors") <=> tasks[i].seen.failed # {})

\* C5 as amended: the result has an errors field exactly when a token lookup of
\* the wallet failed and the result is not the total-failure shape; an errors
\* field is never empty.
C5_ErrorsIffTokenFailedAndReported ==
    \A i \in 1..Len(tasks) :
        Ended(i) =>
          /\ HasField(Result(i), "errors")
                <=> (tasks[i].seen.failed # {} /\ ~HasField(Result(i), "error"))
          /\ HasField(Result(i), "errors") => DOMAIN Result(i).errors # {}

\* C5 witness: one token of the wallet failed and another was read, and the
\* result reports both.
C5_Witness ==
    /\ Len(tasks) = 1
    /\ Ended(1)
    /\ tasks[1].seen.failed # {}
    /\ tasks[1].seen.read # {}
    /\ HasField(Result(1), "errors")
    /\ DOMAIN Result(1).token_balances # {}

\* C6: the task of a wallet is launched before the pacing delay that follows it
\* in the loop, so during a pacing delay every task appended so far is running.
C6_LaunchedBeforeItsDelay ==
    pc = "sleep" => \A i \in 1..Len(tasks) : tasks[i].pc # "created"

Categories ==
    {"connection_to_node", "invalid_address", "invalid_address_format", "validation",
     "bad_function_call_output", "invalid_event_abi", "abi_function_not_found",
     "abi_event_function_not_found", "mismatched_abi", "abi_error",
     "fallback_not_found", "log_topic_error", "block_number_out_of_range",
     "block_not_found", "transaction_not_found", "name_not_found",
     "stale_blockchain", "cannot_handle_request", "too_many_requests",
     "multiple_failed_requests", "method_unavailable", "contract_logic_error",
     "time_exhausted", "extra_data_length_error", "no_abi_functions_found",
     "no_abi_found", "no_abi_events_found", "insufficient_data",
     "invalid_transaction", "transaction_type_mismatch", "bad_response_format",
     "unknown"}

\* A rule of classify_error names the class of the failure, or names ValueError
\* and a text the failure has.
Recognised(e) ==
    \/ isinstance(e, RuleClasses \ {"ValueError"})
    \/ /\ isinstance(e, {"ValueError"})
       /\ \E p \in {HexStr, UnknownFormat, CouldNotFormat} : Contains(e.msg, p)

\* C7: classify_error gives every failure one category, never an empty one, and
\* gives unknown to a failure no rule recognises.
C7_ClassifyTotal ==
    classified # <<>> =>
        /\ Len(classified) = 1
        /\ classified[1] \in Categories
        /\ classified[1] # ""
        /\ ~Recognised(error) => classified[1] = "unknown"

\* C7 witness: a ValueError with a text no rule knows has been classified.
C7_Witness ==
    /\ classified # <<>>
    /\ error.kind = "ValueError"
    /\ error.msg # <<>>
    /\ ~Recognised(error)

\* C8: a BalanceReader operation ends by returning; when a step of it failed,
\* whichever it was, the returned value holds no balance and the category and
\* the message of that failure.
C8_ReaderNeverRaises ==
    reader.pc = "ended" =>
        /\ reader.outcome.ok
        /\ reader.caught # None =>
              reader.outcome.val =
                 IF reader.op = "get_native_token_balance"
                 THEN <<None, classify_error(reader.caught),
                        get_error_message(reader.caught)>>
                 ELSE <<None, None, classify_error(reader.caught),
                        get_error_message(reader.caught)>>
        /\ reader.caught = None => reader.outcome.val[1] # None

\* C8 witness: get_custom_token_balance has ended after its last call, symbol,
\* failed.
C8_Witness ==
    /\ reader.pc = "ended"
    /\ reader.op = "get_custom_token_balance"
    /\ reader.issued = <<"balanceOf", "decimals", "symbol">>
    /\ reader.caught # None

\* C9: two runs of fetch_balances_for_wallet for the same wallet and the same
\* token list, against a node that answers every call the same way each time,
\* end with the same result.
C9_SameAnswersSameResult ==
    \A i, j \in 1..Len(tasks) :
        (Ended(i) /\ Ended(j) /\ tasks[i].wallet_address = tasks[j].wallet_address)
        => tasks[i].outcome = tasks[j].outcome

\* C9 witness: two runs for one wallet have ended, with a token read and a token
\* failed.
C9_Witness ==
    /\ mock
    /\ Len(tasks) = 2
    /\ Ended(1) /\ Ended(2)
    /\ tasks[1].wallet_address = tasks[2].wallet_address
    /\ HasField(Result(1), "errors")
    /\ DOMAIN Result(1).token_balances # {}

\* C10: an entry of the returned list has the fields of a full success, of a
\* partial success with errors not empty, of a total failure, or error alone;
\* none has both native_balance and error.
C10_EntryShapes ==
    Returned_all =>
        \A i \in 1..Len(final_results) :
            LET e == final_results[i]
            IN  /\ \/ DOMAIN e = {"wallet_address", "native_balance", "token_balances"}
                   \/ /\ DOMAIN e = {"wallet_address", "native_balance",
                                     "token_balances", "errors"}
                      /\ DOMAIN e.errors # {}
                   \/ DOMAIN e = {"wallet_address", "error"}
                   \/ DOMAIN e = {"error"}
                /\ ~(HasField(e, "native_balance") /\ HasField(e, "error"))

\* C10 witness: a returned list with a partial success and a total failure.
C10_Witness ==
    /\ Returned_all
    /\ Len(final_results) = 2
    /\ DOMAIN final_results[1] = {"wallet_address", "native_balance",
                                  "token_balances", "errors"}
    /\ DOMAIN final_results[2] = {"wallet_address", "error"}

\* The task i waits for the reply to a call of a token lookup.
InTokenLookup(i) ==
    tasks[i].pc = "awaiting" /\ tasks[i].frame.call[1] # "get_balance"
LookupsEnded(i) == tasks[i].seen.failed \cup tasks[i].seen.read
\* The checksummed form of an address, "" for one that has none.
Checksummed(a) ==
    IF to_checksum_address(a).ok THEN to_checksum_address(a).val ELSE ""

\* C11 as claimed: the token lookups of a wallet are launched together, so
\* while one of them is in flight none is still waiting to be launched.
C11_TokenLookupsLaunchedTogether ==
    \A i \in 1..Len(tasks) :
        InTokenLookup(i) => tasks[i].k = Len(token_addresses)

\* C11 as amended: the token lookups of a wallet are made one after another in
\* the order of the list: while the lookup of the k-th token is in flight, the
\* lookups of the tokens before it have all ended, and none after it has begun.
C11_TokenLookupsOneAtATime ==
    \A i \in 1..Len(tasks) :
        InTokenLookup(i) =>
            /\ tasks[i].k \in 1..Len(token_addresses)
            /\ LookupsEnded(i) = 1..(tasks[i].k - 1)
            /\ tasks[i].frame.call[2] = Checksummed(token_addresses[tasks[i].k])
            /\ \A n \in 1..Len(tasks[i].seen.issued) :
                  LET call == tasks[i].seen.issued[n]
                  IN  call[1] # "get_balance" =>
                        \E j \in 1..tasks[i].k :
                            call[2] = Checksummed(token_addresses[j])

\* C11 witness: the lookup of the second token is in flight after the first
\* token was read.
C11_Witness ==
    /\ Len(tasks) = 1
    /\ InTokenLookup(1)
    /\ tasks[1].k = 2
    /\ tasks[1].seen.read = {1}
    /\ token_addresses[1] # token_addresses[2]

Hung(i) == tasks[i].pc = "hung"
AllLaunched == Len(tasks) = Len(wallet_addresses)

\* C12: a call that never returns stalls the task that made it and no other
\* task; fetch_all_balances does not return while a task is stalled; and every
\* task ends unless a call of its own never returns.
C12_HangStallsOnlyItsTask ==
    /\ [](\A i \in 1..Len(tasks) : Hung(i) => pc # "done")
    /\ [][\A i \in 1..Len(tasks) :
            /\ Hung(i) => tasks'[i] = tasks[i]
            /\ (~Hung(i) /\ tasks'[i].pc = "hung") =>
                  \A j \in 1..Len(tasks) : j # i => tasks'[j] = tasks[j]]_vars
    /\ <>[](AllLaunched /\ \A i \in 1..Len(tasks) : Ended(i) \/ Hung(i))

\* C12 witness: the first wallet's native call never returned, the second
\* wallet's task has ended with its balance read, and fetch_all_balances is
\* still waiting in gather.
C12_Witness ==
    /\ Len(tasks) = 2
    /\ Hung(1)
    /\ tasks[1].frame.call[1] = "get_balance"
    /\ Ended(2)
    /\ HasField(Result(2), "native_balance")
    /\ pc = "gather"

\* C13: when every remote call returns, fetch_all_balances returns in the end,
\* and when it has returned every wallet has a task and every task has ended
\* with its result.
C13_BatchTerminates ==
    /\ <>Returned_all
    /\ [](Returned_all =>
            /\ AllLaunched
            /\ \A i \in 1..Len(tasks) : Ended(i) /\ tasks[i].outcome # None)

\* C13 witness: fetch_all_balances has returned for two wallets, one of which
\* had a token read, by all three calls of its lookup.
C13_Witness ==
    /\ Returned_all
    /\ Len(tasks) = 2
    /\ Ended(1) /\ Ended(2)
    /\ tasks[2].seen.read # {}

Issued(i) == {tasks[i].seen.issued[n] : n \in 1..Len(tasks[i].seen.issued)}
DistinctInputs == NoDuplicates(wallet_addresses) /\ NoDuplicates(token_addresses)

\* The tokens of the list whose address has a checksummed form: the lookups of
\* the others fail before any call.
ValidTokens == {k \in 1..Len(token_addresses) : Checksummed(token_addresses[k]) # ""}

\* C14: over distinct wallets and distinct tokens no call is issued twice,
\* whether it succeeded or failed: one get_balance per wallet, one balanceOf,
\* decimals and symbol per wallet and token. A failed call stops neither the
\* lookups of the other tokens of the wallet nor the calls of another wallet:
\* a task that ends with token_balances has issued one balanceOf per token of
\* valid address, and when fetch_all_balances has returned every wallet of
\* valid address has had its one get_balance.
C14_NoCallRetried ==
    DistinctInputs =>
        /\ \A i \in 1..Len(tasks) :
              /\ NoDuplicates(tasks[i].seen.issued)
              /\ \A j \in 1..Len(tasks) : \A call \in Issued(i) \cap Issued(j) :
                    i # j => call[1] \in {"decimals", "symbol"}
              /\ tasks[i].seen.get_balance <= 1
              /\ tasks[i].seen.balanceOf <= Cardinality(ValidTokens)
              /\ tasks[i].pc # "done" =>
                    /\ tasks[i].seen.get_balance
                         = Cardinality({c \in Issued(i) : c[1] = "get_balance"})
                    /\ tasks[i].seen.balanceOf
                         = Cardinality({c \in Issued(i) : c[1] = "balanceOf"})
              /\ (Ended(i) /\ HasField(Result(i), "token_balances")) =>
                    /\ LookupsEnded(i) = 1..Len(token_addresses)
                    /\ tasks[i].seen.balanceOf = Cardinality(ValidTokens)
        /\ Returned_all =>
              \A i \in 1..Len(tasks) :
                  Checksummed(tasks[i].wallet_address) # "" =>
                      tasks[i].seen.get_balance = 1

\* C14 witness: fetch_all_balances has returned for two wallets and two tokens
\* of valid address; for the first wallet the lookup of the first token failed
\* at the node and the second token was read; the second wallet's native call
\* failed.
C14_Witness ==
    /\ Returned_all
    /\ DistinctInputs
    /\ Len(tasks) = 2 /\ Len(token_addresses) = 2
    /\ ValidTokens = {1, 2}
    /\ tasks[1].seen.failed = {1}
    /\ tasks[1].seen.read = {2}
    /\ tasks[1].seen.balanceOf = 2
    /\ tasks[2].seen.native_failure \in NativeCallFailures

TokenCallOrder == <<"balanceOf", "decimals", "symbol">>

\* C15: get_custom_token_balance issues balanceOf, decimals and symbol in that
\* order and stops at the first step that fails. It returns an amount and a
\* symbol, and no error, only when both checksum conversions and the three calls
\* succeeded; otherwise it returns neither, with the category and the message
\* of the one failure, and no call after the failing step was issued.
C15_TokenLookupAllOrNothing ==
    reader.op = "get_custom_token_balance" =>
        /\ reader.issued = SubSeq(TokenCallOrder, 1, Len(reader.issued))
        /\ reader.pc = "ended" =>
              LET v == reader.outcome.val
              IN  /\ reader.outcome.ok
                  /\ Len(v) = 4
                  /\ v[1] # None <=> v[2] # None
                  /\ v[1] # None <=> reader.caught = None
                  /\ v[1] # None =>
                        /\ to_checksum_address(reader.wallet_address).ok
                        /\ to_checksum_address(reader.token_address).ok
                        /\ reader.issued = TokenCallOrder
                        /\ v[3] = None /\ v[4] = None
                  /\ v[1] = None =>
                        /\ v[3] = classify_error(reader.caught)
                        /\ v[4] = get_error_message(reader.caught)
                        /\ IF reader.issued = <<>>
                           THEN reader.failed_at = "to_checksum_address"
                           ELSE reader.failed_at = reader.issued[Len(reader.issued)]

\* C15 witness: get_custom_token_balance has ended on a failure of decimals(),
\* its second call, without calling symbol().
C15_Witness ==
    /\ reader.pc = "ended"
    /\ reader.op = "get_custom_token_balance"
    /\ reader.failed_at = "decimals"
    /\ reader.issued = <<"balanceOf", "decimals">>
    /\ reader.outcome.val[1] = None

\* The rules of classification as a table, first rule first: the classes a rule
\* names, the text it looks for ("" for none), and its category.
Rule(classes, phrase, category) ==
    [classes |-> classes, phrase |-> phrase, category |-> category]
RuleTable ==
    <<Rule({"ProviderConnectionError", "ClientConnectionError", "ClientResponseError",
            "ClientPayloadError", "ClientOSError", "InvalidURL",
            "requests.ConnectionError", "requests.Timeout"}, "", "connection_to_node"),
      Rule({"InvalidAddress"}, "", "invalid_address"),
      Rule({"ValueError"}, HexStr, "invalid_address_format"),
      Rule({"ValueError"}, UnknownFormat, "invalid_address_format"),
      Rule({"Web3ValidationError"}, "", "validation"),
      Rule({"BadFunctionCallOutput"}, "", "bad_function_call_output"),
      Rule({"InvalidEventABI"}, "", "invalid_event_abi"),
      Rule({"ABIFunctionNotFound"}, "", "abi_function_not_found"),
      Rule({"ABIEventFunctionNotFound"}, "", "abi_event_function_not_found"),
      Rule({"MismatchedABI"}, "", "mismatched_abi"),
      Rule({"ValueError"}, CouldNotFormat, "abi_error"),
      Rule({"FallbackNotFound"}, "", "fallback_not_found"),
      Rule({"LogTopicError"}, "", "log_topic_error"),
      Rule({"BlockNumberOutofRange"}, "", "block_number_out_of_range"),
      Rule({"BlockNotFound"}, "", "block_not_found"),
      Rule({"TransactionNotFound"}, "", "transaction_not_found"),
      Rule({"NameNotFound"}, "", "name_not_found"),
      Rule({"StaleBlockchain"}, "", "stale_blockchain"),
      Rule({"CannotHandleRequest"}, "", "cannot_handle_request"),
      Rule({"TooManyRequests"}, "", "too_many_requests"),
      Rule({"MultipleFailedRequests"}, "", "multiple_failed_requests"),
      Rule({"MethodUnavailable"}, "", "method_unavailable"),
      Rule({"ContractLogicError"}, "", "contract_logic_error"),
      Rule({"TimeExhausted"}, "", "time_exhausted"),
      Rule({"ExtraDataLengthError"}, "", "extra_data_length_error"),
      Rule({"NoABIFunctionsFound"}, "", "no_abi_functions_found"),
      Rule({"NoABIFound"}, "", "no_abi_found"),
      Rule({"NoABIEventsFound"}, "", "no_abi_events_found"),
      Rule({"InsufficientData"}, "", "insufficient_data"),
      Rule({"InvalidTransaction"}, "", "invalid_transaction"),
      Rule({"TransactionTypeMismatch"}, "", "transaction_type_mismatch"),
      Rule({"BadResponseFormat"}, "", "bad_response_format"),
      Rule({"UnicodeError"}, "", "connection_to_node")>>

Matches(rule, e) ==
    /\ Mro(e.kind) \cap rule.classes # {}
    /\ rule.phrase # "" => \E n \in 1..Len(e.msg) : e.msg[n] = rule.phrase

\* The category of the first rule of the table that matches, unknown without one.
FirstMatch(e) ==
    LET hits == {n \in 1..Len(RuleTable) : Matches(RuleTable[n], e)}
    IN  IF hits = {} THEN "unknown"
        ELSE RuleTable[CHOOSE n \in hits : \A m \in hits : n <= m].category

HasAddressText(e) ==
    \E n \in 1..Len(e.msg) : e.msg[n] \in {HexStr, UnknownFormat}
HasAbiText(e) == \E n \in 1..Len(e.msg) : e.msg[n] = CouldNotFormat

\* C16 as claimed: the category is that of the first matching rule, and every
\* ValueError with the ABI text is an abi_error, every ValueError with one of
\* the two address texts an invalid_address_format.
C16_TextDecidesCategory ==
    classified # <<>> =>
        /\ classified[1] = FirstMatch(error)
        /\ error.kind = "ValueError" =>
              /\ HasAbiText(error) => classified[1] = "abi_error"
              /\ HasAddressText(error) => classified[1] = "invalid_address_format"

\* C16 as amended: the category is that of the first matching rule; a
\* ValueError with one of the two address texts is an invalid_address_format,
\* and one with the ABI text is an abi_error only when it has neither of them.
C16_FirstRuleWins ==
    classified # <<>> =>
        /\ classified[1] = FirstMatch(error)
        /\ error.kind = "ValueError" =>
              /\ HasAddressText(error) => classified[1] = "invalid_address_format"
              /\ (HasAbiText(error) /\ ~HasAddressText(error)) =>
                    classified[1] = "abi_error"

\* C16 witness: a ValueError whose text holds both the ABI text and an address
\* text has been classified.
C16_Witness ==
    /\ classified # <<>>
    /\ error.kind = "ValueError"
    /\ HasAbiText(error)
    /\ HasAddressText(error)

\* The task i waits for the reply to its native-balance call.
InNativeLookup(i) ==
    tasks[i].pc = "awaiting" /\ tasks[i].frame.call[1] = "get_balance"

\* C17: in every task the native call is the first call issued; while it is
\* pending no token call of the wallet has been issued; and a token call is
\* pending only after the native call has returned a balance.
C17_NativeBeforeTokens ==
    \A i \in 1..Len(tasks) :
        /\ \A n \in 1..Len(tasks[i].seen.issued) :
              tasks[i].seen.issued[n][1] = "get_balance" <=> n = 1
        /\ InNativeLookup(i) =>
              /\ Len(tasks[i].seen.issued) = 1
              /\ tasks[i].seen.balanceOf = 0
        /\ InTokenLookup(i) =>
              /\ tasks[i].native_balance # None
              /\ tasks[i].seen.native_failure = None
        /\ tasks[i].seen.balanceOf > 0 => tasks[i].seen.native_failure = None

\* C17 witness: a token call of the first wallet is pending while the second
\* wallet still waits for its native call.
C17_Witness ==
    /\ Len(tasks) = 2
    /\ wallet_addresses[1] # wallet_addresses[2]
    /\ InTokenLookup(1)
    /\ InNativeLookup(2)

\* C18: a failure raised in fetch_balances_for_wallet outside the reader's own
\* handling ends the task by a return, not by a raise; the result is the
\* wallet's address and the category and message of that failure, and nothing
\* of the native balance and the token outcomes gathered before it; the entry
\* of the wallet in the returned list is that result.
C18_EscapedFailureIsCaught ==
    \A i \in 1..Len(tasks) :
        LET e == tasks[i].seen.escaped
        IN  e # None =>
              /\ Ended(i)
              /\ tasks[i].outcome =
                    Ok([wallet_address |-> tasks[i].wallet_address,
                        error |-> [type |-> classify_error(e),
                                   message |-> get_error_message(e)]])
              /\ Returned_all => final_results[i] = tasks[i].outcome.val

\* C18 witness: with the native balance and a first token read, recording the
\* second token raised a TypeError, and fetch_all_balances has returned.
C18_Witness ==
    /\ Returned_all
    /\ Len(tasks) = 1
    /\ Len(token_addresses) = 2
    /\ tasks[1].seen.escaped # None
    /\ tasks[1].seen.escaped.kind = "TypeError"
    /\ tasks[1].seen.read = {1, 2}
    /\ tasks[1].seen.symbols[1].type = "str"

\* The classified errors a result entry holds: its wallet-level error and the
\* entries of its per-token errors.
ClassifiedErrors(result) ==
    (IF HasField(result, "error") THEN {result.error} ELSE {})
      \cup (IF HasField(result, "errors")
            THEN {result.errors[a] : a \in DOMAIN result.errors}
            ELSE {})

\* C19: all the classified errors in the list returned by fetch_all_balances,
\* wallet-level or per-token, have the same two field names.
C19_UniformErrorShape ==
    Returned_all =>
        \A i, j \in 1..Len(final_results) :
            \A a \in ClassifiedErrors(final_results[i]) :
                \A b \in ClassifiedErrors(final_results[j]) :
                    DOMAIN a = DOMAIN b /\ Cardinality(DOMAIN a) = 2

Zero == [m |-> 0, e |-> 0]
\* The chain holds no native coin for the wallet of task i.
NativeIsZero(i) ==
    /\ Checksummed(tasks[i].wallet_address) # ""
    /\ NativeWei(Checksummed(tasks[i].wallet_address)) = Zero
\* The chain holds nothing of the k-th token for the wallet of task i.
TokenIsZero(i, k) ==
    /\ Checksummed(token_addresses[k]) # ""
    /\ BalanceOfRaw(Checksummed(token_addresses[k]),
                    Checksummed(tasks[i].wallet_address)) = Zero

\* C20: a balance of zero is a balance read. A wallet whose native call returns
\* 0 goes on to its token lookups with native_balance 0, and its result, unless
\* a failure raised while recording made it a total failure, carries
\* native_balance 0 after every token was looked up. A token read with a
\* balanceOf of 0 and a symbol that is a string is, by the step that ends its
\* lookup, in token_balances under its symbol with amount 0, and that step puts
\* no entry for it in errors.
C20_ZeroIsABalance ==
    /\ [](\A i \in 1..Len(tasks) :
            (NativeIsZero(i) /\ tasks[i].seen.native_failure = None) =>
                /\ InTokenLookup(i) => tasks[i].native_balance = Zero
                /\ (Ended(i) /\ tasks[i].seen.escaped = None) =>
                      /\ HasField(Result(i), "native_balance")
                      /\ Result(i).native_balance = Zero
                      /\ ~HasField(Result(i), "error")
                      /\ LookupsEnded(i) = 1..Len(token_addresses))
    /\ [][\A i \in 1..Len(tasks) :
            \A k \in tasks'[i].seen.read \ tasks[i].seen.read :
                (TokenIsZero(i, k) /\ tasks'[i].seen.symbols[k].type = "str") =>
                    LET now == IF tasks'[i].pc = "done" THEN tasks'[i].outcome.val
                               ELSE tasks'[i]
                        symbol == tasks'[i].seen.symbols[k].val
                    IN  /\ HasField(now, "token_balances")
                        /\ symbol \in DOMAIN now.token_balances
                        /\ now.token_balances[symbol] = Zero
                        /\ token_addresses[k] \in ErrorKeys(now) =>
                              token_addresses[k] \in ErrorKeys(tasks[i])]_vars

\* C20 witness: a wallet with no native coin and nothing of its one token has
\* its result: native_balance 0, the token under its symbol with amount 0, and
\* no errors.
C20_Witness ==
    /\ Len(tasks) = 1
    /\ Ended(1)
    /\ NativeIsZero(1)
    /\ Len(token_addresses) = 1
    /\ TokenIsZero(1, 1)
    /\ tasks[1].seen.read = {1}
    /\ Result(1).native_balance = Zero
    /\ Result(1).token_balances = [x \in {"USDX"} |-> Zero]
    /\ ~HasField(Result(1), "errors")

\* What the chain holds for the wallet of task i, as a result reports it: its
\* native balance, and its amount of each token of the list of valid address.
OwnNative(i) == Div10(NativeWei(Checksummed(wallet_addresses[i])), 18)
OwnAmounts(i) ==
    {Div10(BalanceOfRaw(Checksummed(token_addresses[k]),
                        Checksummed(wallet_addresses[i])),
           DecimalsOf(Checksummed(token_addresses[k]))) : k \in ValidTokens}
\* The wallet a pending call was made for, "" for a call that names none.
WalletArgument(call) ==
    CASE call[1] = "get_balance" -> call[2]
      [] call[1] = "balanceOf" -> call[3]
      [] OTHER -> ""

\* C21: whatever the interleaving of the tasks, the task at position i works
\* for the wallet at position i alone. Every reply it is resumed with answers a
\* lookup made with that wallet as its wallet argument, and a pending call that
\* names a wallet names that one. The native_balance of its result is what the
\* chain holds for that wallet, every amount in token_balances is that wallet's
\* amount of a token of the list, every entry of errors is keyed by a token
\* whose lookup failed in this task, and the entry of the returned list at
\* position i is this result.
C21_OutcomesNotMixed ==
    \A i \in 1..Len(tasks) :
        LET W == wallet_addresses[i]
        IN  /\ tasks[i].wallet_address = W
            /\ tasks[i].seen.answered \subseteq {W}
            /\ tasks[i].pc = "awaiting" =>
                  WalletArgument(tasks[i].frame.call) \in {"", Checksummed(W)}
            /\ Ended(i) =>
                  /\ HasField(Result(i), "native_balance") =>
                        /\ W \in tasks[i].seen.answered
                        /\ Result(i).native_balance = OwnNative(i)
                  /\ HasField(Result(i), "token_balances") =>
                        \A symbol \in DOMAIN Result(i).token_balances :
                            Result(i).token_balances[symbol] \in OwnAmounts(i)
                  /\ HasField(Result(i), "errors") =>
                        \A key \in DOMAIN Result(i).errors :
                            \E k \in tasks[i].seen.failed : token_addresses[k] = key
                  /\ Returned_all => final_results[i] = Result(i)

\* C21 witness: of two different wallets and two different tokens, the first
\* wallet's task still waits for the reply to its native call while the second
\* wallet's task, run in between, has ended: it was resumed with replies to its
\* own lookups alone, and its result holds the second wallet's native balance
\* and its amounts of the two tokens, none of which the first wallet has.
C21_Witness ==
    /\ DistinctInputs
    /\ Len(tasks) = 2 /\ Len(token_addresses) = 2
    /\ InNativeLookup(1)
    /\ Ended(2)
    /\ tasks[2].seen.answered = {wallet_addresses[2]}
    /\ tasks[2].seen.read = {1, 2}
    /\ ~HasField(Result(2), "errors")
    /\ Cardinality(DOMAIN Result(2).token_balances) = 2
    /\ Result(2).native_balance = OwnNative(2)
    /\ OwnNative(1) # OwnNative(2)
    /\ OwnAmounts(1) \cap OwnAmounts(2) = {}

=============================================================================
